---- MODULE Spec2Model ----
(***************************************************************************)
(* Usage metering and entitlement enforcement of the blog-ai backend.      *)
(*                                                                         *)
(* src/server.js holds three versions of the server, one after the other: *)
(*   variant 1  lines   1-210  (register, login, generate)                 *)
(*   variant 2  lines 214-660  (adds plans from the environment, the       *)
(*                              Stripe webhook, /me, /change-plan, ...)    *)
(*   variant 3  lines 698-962  (ES-module rewrite of variant 2)            *)
(* One of them runs over the sqlite store of src/unnamed/part_000; the     *)
(* variable `variant` says which, and never changes.                       *)
(*                                                                         *)
(* A handler is cut at its awaits and store callbacks: every action is the *)
(* execution of one store statement or the return of one gateway call,     *)
(* together with the synchronous code of the handler that runs before the  *)
(* next such point.  An optional value (a field the request body may lack) *)
(* is a sequence of length 0 (absent) or 1 (present).                      *)
(*                                                                         *)
(* Request inputs are well-typed: targetWords, when present, is an integer *)
(* (so every estimated cost is an integer), and the plans are the default  *)
(* ones (no *_MAX_TOKENS_PER_MONTH in the environment).  Stripe is         *)
(* configured, so that variants 2 and 3 register the webhook route.        *)
(***************************************************************************)
EXTENDS Integers, Sequences, FiniteSets, TLC

VARIABLES
    variant,    \* which version of the server is running
    users,      \* table users: row id = index; [email, password, plan, usedTokens]
    articles,   \* table articles, in insertion order: [userId, topic, content]
    inflight,   \* requests awaiting the gateway or a store statement
    dbq,        \* store statements issued without being awaited
    lastResp,   \* the response sent last
    nreq,       \* requests received so far
    demoPending, \* /generate-article requests awaiting the gateway
    charges,    \* per account: how many charges the store has committed, and
                \* the sum of their amounts
    planWriter  \* per account: the billing event whose update set its plan last
                \* (0: none) and how often in a row that update was executed

vars == <<variant, users, articles, inflight, dbq, lastResp, nreq, planWriter,
         demoPending, charges>>

(***************************************************************************)
(* Bounds of the model.                                                    *)
(***************************************************************************)
MaxReq == 3

Variants == {1, 2, 3}

\* Request inputs.  A topic is its sequence of characters.
\* An email is its sequence of characters too.
Emails == {<<"a">>, <<"A">>, <<"b">>}
Passwords == {"pw"}
\* The body of a generate request: topic and targetWords.
GenBodies ==
    {[topic |-> <<>>, targetWords |-> <<>>],
     [topic |-> <<"a", "i">>, targetWords |-> <<>>],
     [topic |-> <<"a", "i">>, targetWords |-> <<9999>>],
     [topic |-> <<"a", "i">>, targetWords |-> <<-5>>],
     [topic |-> <<" ", "a", "i", " ", " ", "s", "e", "o">>, targetWords |-> <<9999>>]}
UserIds == {1, 2}
NewPlans == {"free", "pro", "premium", "gold"}

\* Billing events: the type and the metadata of the checkout session.
Events ==
    <<[type |-> "checkout.session.completed", userId |-> <<1>>, plan |-> <<"premium">>],
      [type |-> "checkout.session.completed", userId |-> <<1>>, plan |-> <<"pro">>],
      [type |-> "checkout.session.completed", userId |-> <<1>>, plan |-> <<"free">>],
      [type |-> "checkout.session.completed", userId |-> <<1>>, plan |-> <<"gold">>],
      [type |-> "checkout.session.completed", userId |-> <<>>, plan |-> <<"pro">>],
      [type |-> "checkout.session.completed", userId |-> <<2>>, plan |-> <<>>],
      [type |-> "invoice.paid", userId |-> <<1>>, plan |-> <<"premium">>]>>
EventIds == 1..Len(Events)

(***************************************************************************)
(* Plans                                                                   *)
(***************************************************************************)
FreeMaxTokens == 20000
ProMaxTokens == 200000
PremiumMaxTokens == 1000000

PlanNames == {"free", "pro", "premium"}

PLANS ==
    [p \in PlanNames |->
        IF p = "free" THEN FreeMaxTokens
        ELSE IF p = "pro" THEN ProMaxTokens
        ELSE PremiumMaxTokens]

\* A lookup that gives an unknown plan the highest ceiling.
PlanOfHighest(plan) ==
    IF plan \in DOMAIN PLANS THEN PLANS[plan] ELSE PLANS["premium"]

\* PLANS[user.plan] || PLANS.free
PlanOf(plan) == IF plan \in DOMAIN PLANS THEN PLANS[plan] ELSE PLANS["free"]

(***************************************************************************)
(* Helpers                                                                 *)
(***************************************************************************)
IsSpace(c) == c = " "

RECURSIVE TrimStart(_)
TrimStart(s) ==
    IF s # <<>> /\ IsSpace(Head(s)) THEN TrimStart(Tail(s)) ELSE s

RECURSIVE TrimEnd(_)
TrimEnd(s) ==
    IF s # <<>> /\ IsSpace(s[Len(s)]) THEN TrimEnd(SubSeq(s, 1, Len(s) - 1)) ELSE s

\* text.trim()
Trim(s) == TrimEnd(TrimStart(s))

\* text.split(/\s+/).length: one more piece than there are runs of whitespace
SplitLength(s) ==
    1 + Cardinality({i \in 1..Len(s) : IsSpace(s[i]) /\ (i = 1 \/ ~IsSpace(s[i - 1]))})

\* Math.ceil(n / 0.75)
CeilDiv075(n) == (4 * n + 2) \div 3

estimateTokens(text) ==
    IF text = <<>> THEN 0 ELSE CeilDiv075(SplitLength(Trim(text)))

Max(a, b) == IF a >= b THEN a ELSE b

LowerChar(c) == IF c = "A" THEN "a" ELSE IF c = "B" THEN "b" ELSE c

\* The address stored as it was typed.
toLowerCaseAsTyped(s) == s

\* email.toLowerCase()
toLowerCase(s) == [i \in 1..Len(s) |-> LowerChar(s[i])]

\* bcrypt.hashSync(password, 10): the stored credential, and its check
hashSync(password) == <<"bcrypt", password>>
compareSync(password, hash) == hash = <<"bcrypt", password>>

\* The secret the session tokens are signed with.
JWT_SECRET == "jwt-secret"

\* jwt.sign({ id, email }, secret, { expiresIn: "7d" }): a token names who
\* signed it and for which account, and whether its seven days are over when
\* it is presented.
jwtSign(id, secret) == <<"jwt", secret, id, FALSE>>

\* jwt.verify(token, secret): TRUE when it returns the payload, FALSE when it
\* throws (not a token, another signature, expired).
jwtVerify(token, secret) ==
    /\ Len(token) = 4
    /\ token[1] = "jwt"
    /\ token[2] = secret
    /\ ~token[4]

\* The words of an Authorization header, header.split(" "): the scheme is a
\* word, a token is a word.
Bearer == <<"Bearer">>

\* The outcome of the middleware: status 0 is next(), with req.user.id = id.
AuthNext(id) == [status |-> 0, error |-> "", id |-> id]
AuthFail(status, error) == [status |-> status, error |-> error, id |-> 0]

\* jwt.verify(token, JWT_SECRET) inside try/catch; token is absent when the
\* header has no second word.
authVerify(token, error) ==
    IF token # <<>> /\ jwtVerify(token[1], JWT_SECRET)
    THEN AuthNext(token[1][3])
    ELSE AuthFail(403, error)

\* function auth(req, res, next); header is the optional Authorization header,
\* given by its words.
auth(header) ==
    IF header = <<>> THEN AuthFail(401, "Missing token")
    ELSE LET parts == header[1]
             second == IF Len(parts) >= 2 THEN <<parts[2]>> ELSE <<>>
         IN  IF variant = 1 THEN authVerify(second, "Invalid token")
             ELSE IF variant = 2 /\ (Len(parts) # 2 \/ parts[1] # Bearer)
             THEN AuthFail(401, "Invalid token format")
             ELSE IF variant = 3 /\ parts[1] # Bearer
             THEN AuthFail(401, "Invalid token format")
             ELSE authVerify(second, "Invalid or expired token")

\* const { topic, targetWords = N } = req.body
DefaultTargetWords == IF variant = 1 THEN 800 ELSE 1200
TargetWordsOf(tw) == IF tw = <<>> THEN DefaultTargetWords ELSE tw[1]

(***************************************************************************)
(* Store statements (src/server.js helpers over src/unnamed/part_000)      *)
(***************************************************************************)
HasUser(id) == id \in 1..Len(users)

\* SELECT * FROM users WHERE id = ?
getUserById(id) == users[id]

\* An update that moves the account one tier up instead of setting its tier.
updateUserPlanStepUp(us, id, newPlan) ==
    IF id \in 1..Len(us)
    THEN [us EXCEPT ![id].plan = IF @ = "free" THEN "pro" ELSE "premium"]
    ELSE us

\* UPDATE users SET plan = ? WHERE id = ?   (no row: nothing is updated)
updateUserPlan(us, id, newPlan) ==
    IF id \in 1..Len(us) THEN [us EXCEPT ![id].plan = newPlan] ELSE us

\* The UPDATE that sets the column to its parameter: SET usedTokens = ?
addUsedTokensOverwrite(us, id, amount) ==
    IF id \in 1..Len(us) THEN [us EXCEPT ![id].usedTokens = amount] ELSE us

\* The UPDATE without its WHERE clause.
addUsedTokensAllRows(us, id, amount) ==
    [i \in 1..Len(us) |-> [us[i] EXCEPT !.usedTokens = @ + amount]]

\* UPDATE users SET usedTokens = usedTokens + ? WHERE id = ?
addUsedTokens(us, id, amount) ==
    IF id \in 1..Len(us)
    THEN [us EXCEPT ![id].usedTokens = us[id].usedTokens + amount]
    ELSE us

\* INSERT INTO articles (userId, topic, content, createdAt) VALUES (?, ?, ?, ?)
saveArticle(arts, userId, topic, content) ==
    Append(arts, [userId |-> userId, topic |-> topic, content |-> content])

\* INSERT INTO users (email, password, plan, usedTokens) VALUES (?, ?, 'free', 0);
\* email is UNIQUE
EmailTaken(us, email) == \E i \in 1..Len(us) : us[i].email = email
insertUser(us, email, hash) ==
    Append(us, [email |-> email, password |-> hash, plan |-> "free", usedTokens |-> 0])

(***************************************************************************)
(* Responses and request records                                           *)
(***************************************************************************)
\* lastResp: status and body of the response; event is the billing event of
\* the delivery it answers (0: the response answers another request).
Resp(kind, status, error) ==
    [kind |-> kind, status |-> status, error |-> error, message |-> "",
     received |-> FALSE, usedTokens |-> 0, maxTokens |-> 0,
     totalTokens |-> 0, usedTokensAfter |-> 0, event |-> 0,
     token |-> <<>>, plan |-> "", article |-> ""]

NoResp == Resp("none", 0, "")

\* An issued store statement that nothing awaits.
Stmt(rid, op, id) ==
    [rid |-> rid, op |-> op, id |-> id, plan |-> "", amount |-> 0,
     topic |-> <<>>, content |-> "", event |-> 0]

\* The number a new request is known by while work of it is pending.
FreeId ==
    CHOOSE i \in 1..MaxReq :
        /\ \A x \in inflight \cup dbq : x.rid # i
        /\ \A j \in 1..(i - 1) : \E x \in inflight \cup dbq : x.rid = j

NoWriter == [ev |-> 0, n |-> 0]

NoCharge == [n |-> 0, sum |-> 0]

\* The record of the charges after one more of amount is committed for id.
Charged(c, id, amount) ==
    [c EXCEPT ![id] = [n |-> @.n + 1, sum |-> @.sum + amount]]

Init ==
    /\ variant \in Variants
    /\ users = <<>>
    /\ articles = <<>>
    /\ inflight = {}
    /\ dbq = {}
    /\ lastResp = NoResp
    /\ nreq = 0
    /\ planWriter = [u \in UserIds |-> NoWriter]
    /\ demoPending = 0
    /\ charges = [u \in UserIds |-> NoCharge]

\* The plan column has no constraint: CREATE TABLE IF NOT EXISTS keeps the rows
\* of an app.db that is already there, whatever wrote them.  A plan the
\* server does not know, or none ("" stands for NULL).
StoredPlans == {"gold", ""}

\* The server started over a store that holds an account with such a plan.
\* The bound on the requests counts the one that once made the account.
InitExistingStore ==
    /\ variant \in Variants
    /\ \E p \in StoredPlans :
          users = <<[email |-> <<"b">>, password |-> hashSync("pw"),
                     plan |-> p, usedTokens |-> 0]>>
    /\ articles = <<>>
    /\ inflight = {}
    /\ dbq = {}
    /\ lastResp = NoResp
    /\ nreq = 1
    /\ planWriter = [u \in UserIds |-> NoWriter]
    /\ demoPending = 0
    /\ charges = [u \in UserIds |-> NoCharge]

(***************************************************************************)
(* POST /register                                                          *)
(***************************************************************************)
RegisterError ==
    IF variant = 1 THEN "User exists"
    ELSE IF variant = 2 THEN "Email already exists" ELSE "Email exists"

RegisterOk == IF variant = 1 THEN "Registered" ELSE "Registration successful"

\* The handler up to and including the callback of its INSERT.  email and
\* password are optional values; storeOk = FALSE is an INSERT that fails for
\* another reason than the UNIQUE constraint.
Register(email, password, storeOk) ==
    /\ nreq < MaxReq
    /\ nreq' = nreq + 1
    /\ IF email = <<>> \/ email = <<<<>>>> \/ password = <<>>
       THEN /\ lastResp' = Resp("register", 400,
                                IF variant = 1 THEN "Missing fields"
                                ELSE "Email and password required")
            /\ UNCHANGED users
       ELSE LET e == toLowerCase(email[1])
                hash == hashSync(password[1])
            IN  IF EmailTaken(users, e) \/ ~storeOk
                THEN /\ lastResp' = Resp("register", 400, RegisterError)
                     /\ UNCHANGED users
                ELSE /\ users' = insertUser(users, e, hash)
                     /\ lastResp' = [Resp("register", 200, "") EXCEPT
                                       !.message = RegisterOk]
    /\ UNCHANGED <<variant, demoPending, charges, articles, inflight, dbq, planWriter>>

(***************************************************************************)
(* Protected routes: the middleware answers, or hands over to the handler  *)
(***************************************************************************)
\* return res.status(...).json({ error }) in auth: the handler is not called.
AuthRejected(a) ==
    /\ nreq < MaxReq
    /\ nreq' = nreq + 1
    /\ lastResp' = Resp("auth", a.status, a.error)
    /\ UNCHANGED <<variant, demoPending, charges, users, articles, inflight, dbq, planWriter>>

(***************************************************************************)
(* POST /login                                                             *)
(***************************************************************************)
\* SELECT * FROM users WHERE email = ?: the row, if there is one
UsersByEmail(email) == {i \in 1..Len(users) : users[i].email = email}

\* The answer to a login that names no account.
NoSuchUser == Resp("login", 400, "Invalid credentials")

\* An answer to a login with a wrong password that says so.
WrongPasswordTold == Resp("login", 400, "Wrong password")

\* The answer to a login whose password does not match the stored hash.
WrongPassword == Resp("login", 400, "Invalid credentials")

\* The whole handler with the callback of its SELECT.  storeOk = FALSE: the
\* SELECT fails and the callback gets no row.  A body without email makes
\* email.toLowerCase() throw before the SELECT, which Express answers 500.
Login(email, password, storeOk) ==
    /\ nreq < MaxReq
    /\ nreq' = nreq + 1
    /\ UNCHANGED <<variant, demoPending, charges, users, articles, inflight, dbq, planWriter>>
    /\ IF email = <<>>
       THEN lastResp' = Resp("login", 500, "Internal Server Error")
       ELSE LET found == IF storeOk THEN UsersByEmail(toLowerCase(email[1])) ELSE {}
            IN  IF found = {}
                THEN lastResp' = NoSuchUser
                ELSE LET id == CHOOSE i \in found : TRUE
                         user == users[id]
                     IN  IF ~compareSync(password, user.password)
                         THEN lastResp' = WrongPassword
                         ELSE lastResp' =
                                [Resp("login", 200, "") EXCEPT
                                   !.message = IF variant = 2 THEN "Login successful" ELSE "",
                                   !.token = jwtSign(id, JWT_SECRET),
                                   !.plan = IF variant = 2 THEN user.plan ELSE "",
                                   !.usedTokens = IF variant = 2 THEN user.usedTokens ELSE 0]

(***************************************************************************)
(* POST /generate                                                          *)
(***************************************************************************)
TopicError == IF variant = 2 THEN "Topic is required" ELSE "Topic required"

LimitError ==
    IF variant = 2 THEN "Token limit reached for plan" ELSE "Token limit reached"

\* estimateTokens(topic), where the variant counts the prompt at all
inputTokensOf(topic) == IF variant = 1 THEN 0 ELSE estimateTokens(topic)

\* Math.max(targetWords * 2, 200) in variant 2, targetWords * 2 in the others
outputTokensOf(tw) == IF variant = 2 THEN Max(tw * 2, 200) ELSE tw * 2

\* Admission that compares the usage alone, without the cost of the request.
AdmitIgnoringCost(usedTokens, totalTokens, maxTokens) ==
    ~(usedTokens > maxTokens)

\* Admission with the comparison off by one.
AdmitStrict(usedTokens, totalTokens, maxTokens) ==
    ~(usedTokens + totalTokens >= maxTokens)

\* The admission check: the request is denied when this is FALSE.
Admit(usedTokens, totalTokens, maxTokens) ==
    ~(usedTokens + totalTokens > maxTokens)

\* Variant 2's catch block: details is the message of what was thrown, the
\* gateway's error or the store's.
GenerateFailed(details) ==
    [Resp("generate", 500, "OpenAI error") EXCEPT !.message = details]

\* The 402 branch entered with the charge already made.
DeniedAfterCharge(r) ==
    /\ lastResp' = Resp("generate", 402, LimitError)
    /\ users' = [users EXCEPT ![r.uid].usedTokens = @ + r.totalTokens]
    /\ UNCHANGED <<articles, inflight, dbq>>

\* The 402 branch: the handler answers and returns.
Denied(r) ==
    /\ lastResp' =
          [Resp("generate", 402, LimitError) EXCEPT
             !.usedTokens = IF variant = 2 THEN r.usedTokens ELSE 0,
             !.maxTokens = IF variant = 2 THEN r.maxTokens ELSE 0]
    /\ UNCHANGED <<users, articles, inflight, dbq>>

\* The request record with the ceiling the account had when it registered.
GenReqStaleCeiling(rid, uid, topic, tw, user) ==
    [rid |-> rid, uid |-> uid, topic |-> topic, targetWords |-> tw,
     plan |-> "free", usedTokens |-> user.usedTokens,
     maxTokens |-> PlanOf("free"),
     inputTokens |-> inputTokensOf(topic),
     outputTokens |-> outputTokensOf(tw),
     totalTokens |-> inputTokensOf(topic) + outputTokensOf(tw),
     pc |-> "openai", article |-> ""]

\* What the handler holds of a request after its SELECT: the row as read, the
\* ceiling of its plan and the estimated cost.
GenReq(rid, uid, topic, tw, user) ==
    [rid |-> rid, uid |-> uid, topic |-> topic, targetWords |-> tw,
     plan |-> user.plan, usedTokens |-> user.usedTokens,
     maxTokens |-> PlanOf(user.plan),
     inputTokens |-> inputTokensOf(topic),
     outputTokens |-> outputTokensOf(tw),
     totalTokens |-> inputTokensOf(topic) + outputTokensOf(tw),
     pc |-> "openai", article |-> ""]

\* The handler from the arrival of the request to its call of the gateway:
\* validation, the SELECT of the account (storeOk = FALSE: the SELECT fails)
\* and the admission check.  uid is the id the session token carries.
Generate(uid, topic, targetWords, storeOk) ==
    /\ nreq < MaxReq
    /\ nreq' = nreq + 1
    /\ UNCHANGED <<variant, demoPending, charges, planWriter>>
    /\ LET rid == FreeId
           tw == TargetWordsOf(targetWords)
       IN  IF topic = <<>>
           THEN /\ lastResp' = Resp("generate", 400, TopicError)
                /\ UNCHANGED <<users, articles, inflight, dbq>>
           ELSE IF ~storeOk /\ variant = 2
           THEN /\ lastResp' = GenerateFailed("store")
                /\ UNCHANGED <<users, articles, inflight, dbq>>
           ELSE IF ~storeOk \/ ~HasUser(uid)
           THEN /\ lastResp' = Resp("generate", 404, "User not found")
                /\ UNCHANGED <<users, articles, inflight, dbq>>
           ELSE LET r == GenReq(rid, uid, topic, tw, getUserById(uid))
                IN  IF ~Admit(r.usedTokens, r.totalTokens, r.maxTokens)
                    THEN Denied(r)
                    ELSE /\ inflight' = inflight \cup {r}
                         /\ UNCHANGED <<users, articles, dbq, lastResp>>

\* What the gateway call of an admitted request ends with: text, a response
\* without the expected fields, or an error.
GatewayOutcomes == {"text", "malformed", "error"}

ParseFailure == "Failed to parse OpenAI response."

\* The gateway's error caught like a parsing error: the handler goes on.
OpenAIReturnErrorSwallowed(r, outcome) ==
    /\ variant = 2
    /\ r \in inflight /\ r.pc = "openai"
    /\ UNCHANGED <<variant, demoPending, charges, users, articles, dbq, nreq, planWriter, lastResp>>
    /\ inflight' = (inflight \ {r}) \cup
          {[r EXCEPT !.pc = "addUsedTokens",
                     !.article = IF outcome = "text" THEN "text" ELSE ParseFailure]}

\* Variant 2: openai.responses.create returns or throws; the handler goes on to
\* its call of addUsedTokens, or to its catch block.
OpenAIReturn(r, outcome) ==
    /\ variant = 2
    /\ r \in inflight /\ r.pc = "openai"
    /\ UNCHANGED <<variant, demoPending, charges, users, articles, dbq, nreq, planWriter>>
    /\ IF outcome = "error"
       THEN /\ inflight' = inflight \ {r}
            /\ lastResp' = GenerateFailed("gateway")
       ELSE /\ inflight' = (inflight \ {r}) \cup
                 {[r EXCEPT !.pc = "addUsedTokens",
                            !.article = IF outcome = "text" THEN "text"
                                        ELSE ParseFailure]}
            /\ UNCHANGED lastResp

\* The two awaits in the other order: the history row is written where the
\* charge should be.
AddUsedTokensDoneRowFirst(r, storeOk) ==
    /\ variant = 2
    /\ r \in inflight /\ r.pc = "addUsedTokens"
    /\ UNCHANGED <<variant, demoPending, dbq, nreq, planWriter, users, charges,
                   lastResp>>
    /\ articles' = saveArticle(articles, r.uid, r.topic, r.article)
    /\ inflight' = (inflight \ {r}) \cup {[r EXCEPT !.pc = "saveArticle"]}

\* The charge written as the usage the handler read plus the cost, instead of
\* added by the store to the usage it holds.
AddUsedTokensDoneFromRead(r, storeOk) ==
    /\ variant = 2
    /\ r \in inflight /\ r.pc = "addUsedTokens"
    /\ UNCHANGED <<variant, demoPending, articles, dbq, nreq, planWriter, lastResp>>
    /\ users' = [users EXCEPT ![r.uid].usedTokens = r.usedTokens + r.totalTokens]
    /\ charges' = Charged(charges, r.uid, r.totalTokens)
    /\ inflight' = (inflight \ {r}) \cup {[r EXCEPT !.pc = "saveArticle"]}

\* Variant 2: the UPDATE of addUsedTokens is executed and the handler goes on to
\* its call of saveArticle, or the UPDATE fails and the handler catches it.
AddUsedTokensDone(r, storeOk) ==
    /\ variant = 2
    /\ r \in inflight /\ r.pc = "addUsedTokens"
    /\ UNCHANGED <<variant, demoPending, articles, dbq, nreq, planWriter>>
    /\ IF storeOk
       THEN /\ users' = addUsedTokens(users, r.uid, r.totalTokens)
            /\ charges' = Charged(charges, r.uid, r.totalTokens)
            /\ inflight' = (inflight \ {r}) \cup {[r EXCEPT !.pc = "saveArticle"]}
            /\ UNCHANGED lastResp
       ELSE /\ inflight' = inflight \ {r}
            /\ lastResp' = GenerateFailed("store")
            /\ UNCHANGED <<users, charges>>

\* Variant 2: the INSERT of saveArticle is executed and the handler answers,
\* or the INSERT fails and the handler catches it.
SaveArticleDone(r, storeOk) ==
    /\ variant = 2
    /\ r \in inflight /\ r.pc = "saveArticle"
    /\ inflight' = inflight \ {r}
    /\ UNCHANGED <<variant, demoPending, charges, users, dbq, nreq, planWriter>>
    /\ IF storeOk
       THEN /\ articles' = saveArticle(articles, r.uid, r.topic, r.article)
            /\ lastResp' =
                  [Resp("generate", 200, "") EXCEPT
                     !.article = r.article,
                     !.totalTokens = r.totalTokens,
                     !.usedTokensAfter = r.usedTokens + r.totalTokens,
                     !.maxTokens = r.maxTokens]
       ELSE /\ lastResp' = GenerateFailed("store")
            /\ UNCHANGED articles

\* Variants 1 and 3: the gateway call returns inside the callback of the SELECT.
\* With text, both store statements are issued without being awaited and the
\* handler answers at once; an error, or a response without the expected
\* fields, is thrown in the callback, where nothing catches it: the request
\* stays unanswered.
OpenAIReturnUnawaited(r, outcome) ==
    /\ variant \in {1, 3}
    /\ r \in inflight /\ r.pc = "openai"
    /\ UNCHANGED <<variant, demoPending, charges, users, articles, nreq, planWriter>>
    /\ IF outcome = "text"
       THEN /\ inflight' = inflight \ {r}
            /\ dbq' = dbq \cup
                 {[Stmt(r.rid, "addUsedTokens", r.uid) EXCEPT !.amount = r.totalTokens],
                  [Stmt(r.rid, "saveArticle", r.uid) EXCEPT
                      !.topic = r.topic, !.content = "text"]}
            /\ lastResp' = [Resp("generate", 200, "") EXCEPT !.article = "text"]
       ELSE /\ inflight' = (inflight \ {r}) \cup {[r EXCEPT !.pc = "unhandled"]}
            /\ UNCHANGED <<dbq, lastResp>>

(***************************************************************************)
(* POST /stripe/webhook  (variants 2 and 3, with Stripe configured)        *)
(***************************************************************************)
\* The guard without its test of the plan.
PlanGuardAnyPlan(userId, plan) == userId # <<>> /\ plan # <<>>

\* userId && (plan === "pro" || plan === "premium")
PlanGuard(userId, plan) ==
    /\ userId # <<>>
    /\ plan \in {<<"pro">>, <<"premium">>}

\* The signature Stripe's scheme gives a payload under a signing secret.
Sign(payload, secret) == <<"v1", secret, payload>>

stripeWebhookSecret == "whsec"

\* A check that the header is there, without verifying it.
constructEventHeaderOnly(payload, sig, secret) == sig # <<>>

\* stripe.webhooks.constructEvent(req.body, sig, stripeWebhookSecret): TRUE when
\* it returns the event, FALSE when it throws.  sig is the optional header.
constructEvent(payload, sig, secret) == sig = <<Sign(payload, secret)>>

\* The branch taken for every event.
IsAnyEvent(event) == TRUE

\* event.type === "checkout.session.completed"
IsCheckoutCompleted(event) == event.type = "checkout.session.completed"

\* res.json({ received: true })
Ack(e) == [Resp("webhook", 200, "") EXCEPT !.received = TRUE, !.event = e]

\* The whole handler: constructEvent, the branch on the event and the answer.
\* The UPDATE of the plan is issued, not awaited.
StripeWebhook(e, sig) ==
    /\ variant \in {2, 3}
    /\ nreq < MaxReq
    /\ nreq' = nreq + 1
    /\ UNCHANGED <<variant, demoPending, charges, users, articles, inflight, planWriter>>
    /\ LET rid == FreeId
           event == Events[e]
       IN  IF ~constructEvent(e, sig, stripeWebhookSecret)
           THEN /\ lastResp' = [Resp("webhook", 400, "Webhook Error") EXCEPT !.event = e]
                /\ UNCHANGED dbq
           ELSE /\ lastResp' = Ack(e)
                /\ IF /\ IsCheckoutCompleted(event)
                      /\ PlanGuard(event.userId, event.plan)
                   THEN dbq' = dbq \cup
                          {[Stmt(rid, "updateUserPlan", event.userId[1]) EXCEPT
                              !.plan = event.plan[1], !.event = e]}
                   ELSE UNCHANGED dbq

(***************************************************************************)
(* POST /change-plan  (variant 2)                                          *)
(***************************************************************************)
\* The whole handler; its UPDATE is awaited before the answer.
ChangePlan(uid, newPlan, storeOk) ==
    /\ variant = 2
    /\ nreq < MaxReq
    /\ nreq' = nreq + 1
    /\ UNCHANGED <<variant, demoPending, charges, articles, inflight, dbq>>
    /\ IF newPlan \notin {"free", "pro", "premium"}
       THEN /\ lastResp' = Resp("change-plan", 400, "Invalid plan")
            /\ UNCHANGED <<users, planWriter>>
       ELSE IF ~storeOk
       THEN /\ lastResp' = Resp("change-plan", 500, "Failed to change plan")
            /\ UNCHANGED <<users, planWriter>>
       ELSE /\ users' = updateUserPlan(users, uid, newPlan)
            /\ planWriter' = [planWriter EXCEPT ![uid] = NoWriter]
            /\ lastResp' = [Resp("change-plan", 200, "") EXCEPT
                              !.message = "Plan updated"]

(***************************************************************************)
(* GET /me  (variants 2 and 3)                                             *)
(***************************************************************************)
\* The whole handler with its SELECT.  storeOk = FALSE: the SELECT fails, which
\* variant 2 catches (500) and variant 3 takes for a missing row.
Me(uid, storeOk) ==
    /\ variant \in {2, 3}
    /\ nreq < MaxReq
    /\ nreq' = nreq + 1
    /\ UNCHANGED <<variant, demoPending, charges, users, articles, inflight, dbq, planWriter>>
    /\ IF ~storeOk /\ variant = 2
       THEN lastResp' = Resp("me", 500, "Internal error")
       ELSE IF ~storeOk \/ ~HasUser(uid)
       THEN lastResp' = Resp("me", 404, "User not found")
       ELSE LET user == getUserById(uid)
            IN  lastResp' = [Resp("me", 200, "") EXCEPT
                               !.plan = user.plan,
                               !.usedTokens = user.usedTokens,
                               !.maxTokens = PlanOf(user.plan)]

(***************************************************************************)
(* POST /generate-article  (no middleware)                                 *)
(***************************************************************************)
DemoFailed ==
    IF variant = 2 THEN "Article generation failed" ELSE "Generation failed"

\* The handler up to its call of the gateway.
GenerateArticle(topic) ==
    /\ nreq < MaxReq
    /\ nreq' = nreq + 1
    /\ UNCHANGED <<variant, charges, users, articles, inflight, dbq, planWriter>>
    /\ IF topic = <<>>
       THEN /\ lastResp' = Resp("generate-article", 400, TopicError)
            /\ UNCHANGED demoPending
       ELSE /\ demoPending' = demoPending + 1
            /\ UNCHANGED lastResp

\* The handler that also keeps what it generated in the history.
GenerateArticleReturnRecorded(outcome) ==
    /\ demoPending > 0
    /\ demoPending' = demoPending - 1
    /\ UNCHANGED <<variant, charges, users, inflight, dbq, planWriter, nreq>>
    /\ articles' = saveArticle(articles, 0, <<>>, outcome)
    /\ lastResp' = Resp("generate-article", 200, "")

\* The gateway call returns or throws, and the handler answers: the text, or
\* from its catch block, which a response without the expected fields reaches
\* as well.
GenerateArticleReturn(outcome) ==
    /\ demoPending > 0
    /\ demoPending' = demoPending - 1
    /\ UNCHANGED <<variant, charges, users, articles, inflight, dbq, planWriter, nreq>>
    /\ lastResp' = IF outcome = "text"
                   THEN Resp("generate-article", 200, "")
                   ELSE Resp("generate-article", 500, DemoFailed)

(***************************************************************************)
(* The routes behind the middleware                                        *)
(***************************************************************************)
\* app.post("/generate", auth, ...): the header decides whether the handler
\* sees the request, with whatever body it has.
PostGenerate(header) ==
    IF auth(header).status # 0
    THEN AuthRejected(auth(header))
    ELSE \E b \in GenBodies, storeOk \in BOOLEAN :
            Generate(auth(header).id, b.topic, b.targetWords, storeOk)

\* app.post("/change-plan", auth, ...)
PostChangePlan(header) ==
    IF auth(header).status # 0
    THEN variant = 2 /\ AuthRejected(auth(header))
    ELSE \E newPlan \in NewPlans, storeOk \in BOOLEAN :
            ChangePlan(auth(header).id, newPlan, storeOk)

\* app.get("/me", auth, ...)
GetMe(header) ==
    IF auth(header).status # 0
    THEN variant \in {2, 3} /\ AuthRejected(auth(header))
    ELSE \E storeOk \in BOOLEAN : Me(auth(header).id, storeOk)

(***************************************************************************)
(* The store executes a statement that was issued without being awaited    *)
(***************************************************************************)
\* A failure of the update reported to the sender as an error.
PlanUpdateFailedAnswers(st) ==
    /\ lastResp' = [Resp("webhook", 500, "Failed to update user plan") EXCEPT
                      !.event = st.event]
    /\ UNCHANGED <<users, articles, planWriter, charges>>

\* .catch((err) => console.error("Failed to update user plan:", err))
PlanUpdateFailed(st) == UNCHANGED <<users, articles, planWriter, lastResp, charges>>

\* The effect of a statement that succeeds.
DbApply(st) ==
    IF st.op = "updateUserPlan"
    THEN /\ users' = updateUserPlan(users, st.id, st.plan)
         /\ planWriter' =
               IF HasUser(st.id)
               THEN [planWriter EXCEPT ![st.id] =
                       IF @.ev = st.event THEN [@ EXCEPT !.n = @ + 1]
                       ELSE [ev |-> st.event, n |-> 1]]
               ELSE planWriter
         /\ UNCHANGED <<articles, charges>>
    ELSE IF st.op = "addUsedTokens"
    THEN /\ users' = addUsedTokens(users, st.id, st.amount)
         /\ charges' = IF HasUser(st.id) THEN Charged(charges, st.id, st.amount)
                       ELSE charges
         /\ UNCHANGED <<articles, planWriter>>
    ELSE /\ articles' = saveArticle(articles, st.id, st.topic, st.content)
         /\ UNCHANGED <<users, planWriter, charges>>

\* The store holding back the update of a plan until no request of the
\* account is in flight.
DbRunAfterGenerations(st, storeOk) ==
    /\ st \in dbq
    /\ storeOk \/ (variant = 2 /\ st.op = "updateUserPlan")
    /\ st.op = "updateUserPlan" => \A r \in inflight : r.uid # st.id
    /\ dbq' = dbq \ {st}
    /\ UNCHANGED <<variant, demoPending, inflight, nreq>>
    /\ IF ~storeOk
       THEN PlanUpdateFailed(st)
       ELSE /\ UNCHANGED lastResp
            /\ DbApply(st)

\* storeOk = FALSE: the statement fails and the store is as before.  Only
\* variant 2's updateUserPlan has a callback, which logs the failure; a failing
\* statement without one raises an error event nobody listens to, which ends
\* the process: the model has no step for that.
DbRun(st, storeOk) ==
    /\ st \in dbq
    /\ storeOk \/ (variant = 2 /\ st.op = "updateUserPlan")
    /\ dbq' = dbq \ {st}
    /\ UNCHANGED <<variant, demoPending, inflight, nreq>>
    /\ IF ~storeOk
       THEN PlanUpdateFailed(st)
       ELSE /\ UNCHANGED lastResp
            /\ DbApply(st)

(***************************************************************************)
(* Specification                                                           *)
(***************************************************************************)
\* The stripe-signature header of a delivery of event e: missing, Stripe's,
\* made with another secret, or Stripe's for another payload.
Signatures(e) ==
    {<<>>, <<Sign(e, stripeWebhookSecret)>>, <<Sign(e, "forged")>>,
     <<Sign(e + 1, stripeWebhookSecret)>>}

OptEmails == {<<>>} \cup {<<e>> : e \in Emails}
OptPasswords == {<<p>> : p \in Passwords}
\* The Authorization header of a request to a protected route: none, the
\* token of an account, a token signed with another secret, an expired token,
\* something that is no token, and a token sent without the scheme.
Headers ==
    {<<>>}
    \cup {<<<<Bearer, jwtSign(u, JWT_SECRET)>>>> : u \in UserIds}
    \cup {<<<<Bearer, jwtSign(1, "guessed")>>>>,
          <<<<Bearer, <<"jwt", JWT_SECRET, 1, TRUE>>>>>>,
          <<<<Bearer, <<"garbage">>>>>>,
          <<<<jwtSign(1, JWT_SECRET)>>>>}

\* The passwords tried at login: the one registered with, and another.
LoginPasswords == Passwords \cup {"guess"}

Next ==
    \/ \E email \in OptEmails, password \in OptPasswords, ok \in BOOLEAN :
          Register(email, password, ok)
    \/ \E email \in OptEmails, password \in LoginPasswords, ok \in BOOLEAN :
          Login(email, password, ok)
    \/ \E h \in Headers : PostGenerate(h)
    \/ \E r \in inflight, o \in GatewayOutcomes : OpenAIReturn(r, o)
    \/ \E r \in inflight, ok \in BOOLEAN : AddUsedTokensDone(r, ok)
    \/ \E r \in inflight, ok \in BOOLEAN : SaveArticleDone(r, ok)
    \/ \E r \in inflight, o \in GatewayOutcomes : OpenAIReturnUnawaited(r, o)
    \/ \E e \in EventIds : \E sig \in Signatures(e) : StripeWebhook(e, sig)
    \/ \E h \in Headers : PostChangePlan(h)
    \/ \E h \in Headers : GetMe(h)
    \/ \E b \in GenBodies : GenerateArticle(b.topic)
    \/ \E o \in GatewayOutcomes : GenerateArticleReturn(o)
    \/ \E st \in dbq, ok \in BOOLEAN : DbRun(st, ok)

Spec == Init /\ [][Next]_vars

\* The same server over a store with an account of an unknown plan.
SpecExistingStore == InitExistingStore /\ [][Next]_vars

(***************************************************************************)
(* Claims                                                                  *)
(***************************************************************************)
\* The ceilings the specification gives the tiers.
TierCeiling(tier) ==
    CASE tier = "free" -> 20000
      [] tier = "pro" -> 200000
      [] tier = "premium" -> 1000000

\* The cost a generate request is estimated at before the gateway is called.
RequestCost(b) ==
    inputTokensOf(b.topic) + outputTokensOf(TargetWordsOf(b.targetWords))

\* The requests this step admitted: they now wait for the gateway.
Admitted == {r \in inflight' \ inflight : r.pc = "openai"}

\* C1: a generate request of an existing account with stored consumedQuota u,
\* tier ceiling c and estimated cost k goes on to the gateway call if and only
\* if u + k <= c; otherwise it is answered 402 and does not go on.
C1_AdmissionIffWithinCeiling ==
    [][\A uid \in UserIds, b \in GenBodies :
          (Generate(uid, b.topic, b.targetWords, TRUE) /\ b.topic # <<>> /\ HasUser(uid))
          => LET u == users[uid].usedTokens
                 c == TierCeiling(users[uid].plan)
                 k == RequestCost(b)
             IN  IF u + k <= c
                 THEN /\ \E r \in Admitted : r.uid = uid /\ r.totalTokens = k
                      /\ lastResp' = lastResp
                 ELSE /\ Admitted = {}
                      /\ lastResp'.kind = "generate" /\ lastResp'.status = 402]_vars

\* C1 witness: one request was admitted with u + k = c exactly, and a later
\* one of the same account was denied.
C1_Witness ==
    /\ \E r \in inflight : r.pc = "openai" /\ r.usedTokens + r.totalTokens = r.maxTokens
    /\ lastResp.kind = "generate" /\ lastResp.status = 402

\* The store and the work pending on it are as before the step.
StoreUntouched ==
    users' = users /\ articles' = articles /\ dbq' = dbq

\* C2: a generate request denied at admission leaves the consumedQuota and
\* the history rows of every account as they were, and nothing of it stays
\* pending, so the gateway is never called for it.
C2_DeniedChangesNothing ==
    [][\A uid \in UserIds, b \in GenBodies :
          (/\ Generate(uid, b.topic, b.targetWords, TRUE)
           /\ b.topic # <<>> /\ HasUser(uid)
           /\ users[uid].usedTokens + RequestCost(b) > TierCeiling(users[uid].plan))
          => (StoreUntouched /\ inflight' = inflight)]_vars

\* C2 witness: an account that has consumed quota was denied, and the answer
\* carries the usage the store still holds.
C2_Witness ==
    /\ lastResp.kind = "generate" /\ lastResp.status = 402
    /\ \E i \in 1..Len(users) :
          users[i].usedTokens > 0 /\ lastResp.usedTokens = users[i].usedTokens
    /\ articles # <<>>

\* What becomes of request r in this step.
Successors(r) == {x \in inflight' : x.rid = r.rid}

\* C3 (variant 2): a generate request answers 200 only after its charge and
\* its history row: the charge adds exactly the cost of its admission check to
\* the consumedQuota of its account, the row is one row of its account, and no
\* other account's quota or history changes.
C3_SuccessChargesOnceRecordsOnce ==
    [][variant = 2 =>
        \A r \in inflight :
          /\ \A x \in Successors(r) :
                /\ x.uid = r.uid /\ x.totalTokens = r.totalTokens
                /\ r.totalTokens = r.inputTokens + r.outputTokens
                /\ x.pc = "saveArticle" /\ r.pc # "saveArticle"
                   => /\ r.pc = "addUsedTokens"
                      /\ users' = [users EXCEPT ![r.uid].usedTokens = @ + r.totalTokens]
                      /\ articles' = articles
          /\ (Successors(r) = {} /\ lastResp'.kind = "generate" /\ lastResp'.status = 200)
             => /\ r.pc = "saveArticle"
                /\ users' = users
                /\ Len(articles') = Len(articles) + 1
                /\ SubSeq(articles', 1, Len(articles)) = articles
                /\ articles'[Len(articles')].userId = r.uid
                /\ lastResp'.totalTokens = r.totalTokens]_vars

\* C3 witness: with two accounts, a request of the second one was answered 200.
C3_Witness ==
    /\ variant = 2 /\ Len(users) = 2
    /\ lastResp.kind = "generate" /\ lastResp.status = 200
    /\ users[2].usedTokens = lastResp.totalTokens /\ users[1].usedTokens = 0
    /\ Len(articles) = 1 /\ articles[1].userId = 2

\* C4: nothing of an admitted generate request touches the store before its
\* gateway call has returned, and when that call fails the request ends there:
\* no charge, no history row, and no step of it left to run.
C4_GatewayFailureNeverCharges ==
    [][/\ Admitted # {} => StoreUntouched
       /\ \A r \in inflight :
            /\ (OpenAIReturn(r, "error") \/ OpenAIReturnUnawaited(r, "error"))
               => /\ StoreUntouched
                  /\ \A x \in Successors(r) : x.pc = "unhandled"
            /\ r.pc = "unhandled" => r \in inflight']_vars

\* C4 witness: the account has consumed quota, and a later request of it ended
\* with the gateway's error.
C4_Witness ==
    /\ variant = 2
    /\ lastResp.kind = "generate" /\ lastResp.status = 500
    /\ lastResp.message = "gateway"
    /\ inflight = {}
    /\ \E i \in 1..Len(users) : users[i].usedTokens > 0 /\ Len(articles) = 1

\* C5 (variant 2): the ceiling of a request's tier is the constant of that
\* tier, and when the charge of an admitted request is committed with no other
\* charge of the account since its admission, the consumedQuota does not
\* exceed the ceiling of the tier it was admitted under.
C5_SingleChargeWithinCeiling ==
    [][\A r \in inflight :
          /\ r.maxTokens = TierCeiling(r.plan)
          /\ (AddUsedTokensDone(r, TRUE) /\ users[r.uid].usedTokens = r.usedTokens)
             => users'[r.uid].usedTokens <= TierCeiling(r.plan)]_vars

\* C5 witness: a charge was committed that brought the account to its ceiling.
C5_Witness ==
    \E r \in inflight :
        /\ r.pc = "saveArticle"
        /\ users[r.uid].usedTokens = r.usedTokens + r.totalTokens
        /\ users[r.uid].usedTokens = TierCeiling(r.plan)

\* The header Stripe sends with event e.
GoodSig(e) == <<Sign(e, stripeWebhookSecret)>>

\* C6: the update of a checkout-completed event sets the account to the
\* event's tier, and executing the update of the same event again, with no
\* other change of the account's tier in between, leaves the store as it is:
\* twice gives the tier that once gave.
C6_ReplayKeepsTier ==
    [][\A st \in dbq :
          (DbRun(st, TRUE) /\ st.op = "updateUserPlan" /\ HasUser(st.id))
          => /\ users'[st.id].plan = Events[st.event].plan[1]
             /\ planWriter[st.id].ev = st.event => users' = users]_vars

\* C6 witness: the update of one event was executed twice in a row.
C6_Witness ==
    \E u \in 1..Len(users) :
        planWriter[u].n = 2 /\ users[u].plan = Events[planWriter[u].ev].plan[1]

\* C7: a verified billing event whose target tier is not pro or premium issues
\* no update and changes no account; every update a webhook issues sets pro or
\* premium.
C7_FreeTargetNeverChangesTier ==
    [][/\ \A e \in EventIds :
            (StripeWebhook(e, GoodSig(e))
             /\ Events[e].plan \notin {<<"pro">>, <<"premium">>})
            => (StoreUntouched /\ inflight' = inflight)
       /\ \A st \in dbq' \ dbq :
            st.op = "updateUserPlan" => st.plan \in {"pro", "premium"}]_vars

\* C7 witness: a verified event targeting free was acknowledged for an account
\* that is on premium, and nothing is pending.
C7_Witness ==
    /\ lastResp.kind = "webhook" /\ lastResp.received
    /\ Events[lastResp.event].plan = <<"free">>
    /\ Events[lastResp.event].userId = <<1>>
    /\ Len(users) >= 1 /\ users[1].plan = "premium"
    /\ dbq = {}

\* C8: a delivery whose signature does not verify is answered 400 and nothing
\* else happens: no statement is issued, no account or history row changes,
\* and the answer is not the acknowledgement.
C8_BadSignatureRejected ==
    [][\A e \in EventIds : \A sig \in Signatures(e) :
          (StripeWebhook(e, sig) /\ sig # GoodSig(e))
          => /\ StoreUntouched /\ inflight' = inflight
             /\ lastResp'.kind = "webhook" /\ lastResp'.status = 400
             /\ ~lastResp'.received]_vars

\* C8 witness: an upgrade of an existing free account was delivered with a
\* signature that does not verify, and was rejected.
C8_Witness ==
    /\ lastResp.kind = "webhook" /\ lastResp.status = 400
    /\ Events[lastResp.event].plan = <<"premium">>
    /\ Events[lastResp.event].userId = <<1>>
    /\ IsCheckoutCompleted(Events[lastResp.event])
    /\ Len(users) >= 1 /\ users[1].plan = "free"

\* C9: a verified billing event of another kind than checkout.session.completed
\* is acknowledged and changes nothing.
C9_OtherKindsAcknowledgedOnly ==
    [][\A e \in EventIds :
          (StripeWebhook(e, GoodSig(e))
           /\ Events[e].type # "checkout.session.completed")
          => /\ lastResp'.status = 200 /\ lastResp'.received
             /\ StoreUntouched /\ inflight' = inflight]_vars

\* C9 witness: an invoice event naming an existing free account and premium
\* was acknowledged.
C9_Witness ==
    /\ lastResp.kind = "webhook" /\ lastResp.received
    /\ Events[lastResp.event].type = "invoice.paid"
    /\ Events[lastResp.event].userId = <<1>>
    /\ Len(users) >= 1 /\ users[1].plan = "free"
    /\ dbq = {}

\* C10: the handler acknowledges a verified delivery in the step that verifies
\* it, whatever the event asks for, and the later execution of a statement,
\* failed or not, sends nothing: a failed update never becomes an error answer.
C10_VerifiedAlwaysAcknowledged ==
    [][/\ \A e \in EventIds :
            StripeWebhook(e, GoodSig(e))
            => /\ lastResp'.kind = "webhook" /\ lastResp'.event = e
               /\ lastResp'.status = 200 /\ lastResp'.received
       /\ \A st \in dbq : st \notin dbq' => lastResp' = lastResp]_vars

\* C10 witness: the upgrade of an existing account was acknowledged, its
\* update was executed and failed (the account is still free), and the
\* acknowledgement stands.
C10_Witness ==
    /\ variant = 2
    /\ lastResp.kind = "webhook" /\ lastResp.status = 200 /\ lastResp.received
    /\ IsCheckoutCompleted(Events[lastResp.event])
    /\ Events[lastResp.event].plan = <<"premium">>
    /\ Events[lastResp.event].userId = <<1>>
    /\ Len(users) >= 1 /\ users[1].plan = "free"
    /\ dbq = {}

\* The account a login names, if there is one.
AccountOf(email) == UsersByEmail(toLowerCase(email))

\* C11: a login naming an existing account with a password that does not
\* match, and a login naming no account, get the same response: status 400,
\* the same error body, and nothing else in it.
C11_FailedLoginsIndistinguishable ==
    [][\A e \in Emails, p \in LoginPasswords, ok \in BOOLEAN :
          (/\ Login(<<e>>, p, ok)
           /\ \/ AccountOf(e) = {}
              \/ \E i \in AccountOf(e) : users[i].password # hashSync(p))
          => /\ lastResp'.status = 400
             /\ lastResp'.error = "Invalid credentials"
             /\ lastResp' = [NoResp EXCEPT !.kind = "login", !.status = 400,
                                           !.error = "Invalid credentials"]]_vars

\* C11 witness: every email a login can name has an account, and a login was
\* refused: it named an existing account.
C11_Witness ==
    /\ \A e \in Emails : AccountOf(e) # {}
    /\ lastResp.kind = "login" /\ lastResp.status = 400

\* Two addresses that differ at most in the case of their letters.
EqualUpToCase(a, b) ==
    /\ Len(a) = Len(b)
    /\ \A i \in 1..Len(a) :
          \/ a[i] = b[i]
          \/ {a[i], b[i]} \in {{"a", "A"}, {"b", "B"}}

\* C12: registering an address that equals, up to the case of its letters,
\* the address of an existing account is refused with the answer of a
\* duplicate; no account is added and the existing rows (hash, tier,
\* consumedQuota) stay as they are.
C12_DuplicateEmailRefused ==
    [][\A e \in Emails, p \in Passwords, ok \in BOOLEAN :
          (/\ Register(<<e>>, <<p>>, ok)
           /\ \E i \in 1..Len(users) : EqualUpToCase(users[i].email, e))
          => /\ lastResp'.kind = "register" /\ lastResp'.status = 400
             /\ lastResp'.error \in {"User exists", "Email already exists", "Email exists"}
             /\ users' = users]_vars

\* C12 witness: both addresses have an account, so the registration that
\* was refused last named one of them.
C12_Witness ==
    /\ Len(users) = 2
    /\ lastResp.kind = "register" /\ lastResp.status = 400
    /\ lastResp.error = RegisterError

\* The headers that carry the token a login issued, as a login tells the
\* caller to send it.
Credentials == {<<<<Bearer, jwtSign(u, JWT_SECRET)>>>> : u \in UserIds}

\* A request to a protected route with Authorization header h.
ProtectedRequest(h) == PostGenerate(h) \/ PostChangePlan(h) \/ GetMe(h)

\* C13: a request to a protected route without a token is answered 401, one
\* with a token that is malformed, expired or not signed by the server is
\* answered 403, and in both cases the handler does not run: no store
\* statement, no pending work, no change of any account.
C13_NoToken401BadToken403 ==
    [][\A h \in Headers \ Credentials :
          ProtectedRequest(h)
          => /\ lastResp'.kind = "auth"
             /\ lastResp'.status = IF h = <<>> THEN 401 ELSE 403
             /\ StoreUntouched /\ inflight' = inflight]_vars

C15_DemoTouchesNoAccount ==
    [][/\ (\/ demoPending' # demoPending
           \/ (lastResp' # lastResp /\ lastResp'.kind = "generate-article"))
          => /\ StoreUntouched /\ inflight' = inflight
             /\ lastResp' # lastResp
                  => /\ lastResp'.kind = "generate-article"
                     /\ lastResp'.status \in {200, 400, 500}
       /\ \A b \in GenBodies :
            (GenerateArticle(b.topic) /\ b.topic # <<>>)
            => demoPending' = demoPending + 1
       /\ \A o \in GatewayOutcomes :
            GenerateArticleReturn(o)
            => lastResp'.status = IF o = "text" THEN 200 ELSE 500]_vars

\* C15 witness: an account has consumed quota and has its history row, and a
\* demo request sent after that was answered with its article.
C15_Witness ==
    /\ \E i \in 1..Len(users) : users[i].usedTokens > 0
    /\ articles # <<>>
    /\ lastResp.kind = "generate-article" /\ lastResp.status = 200

\* C16: whatever the requests carry, no step leaves an account with a
\* negative consumedQuota, with a consumedQuota lower than before the step, or
\* with a tier other than free, pro and premium.
C16_QuotaNeverDecreasesTierValid ==
    [][\A i \in 1..Len(users') :
          /\ users'[i].usedTokens >= 0
          /\ users'[i].plan \in {"free", "pro", "premium"}
          /\ i <= Len(users) => users'[i].usedTokens >= users[i].usedTokens]_vars

\* The account's tier was set last by the update of a billing event that
\* names premium.
UpgradedToPremium(uid) ==
    /\ planWriter[uid].ev # 0
    /\ Events[planWriter[uid].ev].plan = <<"premium">>

\* C17: once the update of a verified billing event has set an account to
\* premium, the next generate request of the account is admitted under the
\* premium ceiling: with usage u and cost k, u + k <= 1000000 is enough, also
\* when u + k > 20000 and the request was denied while the account was free.
C17_UpgradeTakesEffectOnNextAdmission ==
    [][\A uid \in UserIds, b \in GenBodies :
          (/\ Generate(uid, b.topic, b.targetWords, TRUE)
           /\ b.topic # <<>> /\ HasUser(uid)
           /\ UpgradedToPremium(uid)
           /\ users[uid].usedTokens + RequestCost(b) <= 1000000)
          => /\ \E r \in Admitted :
                  r.uid = uid /\ r.plan = "premium" /\ r.maxTokens = 1000000
             /\ lastResp' = lastResp]_vars

\* C17 witness: a request that the free ceiling denies (u + k > 20000) waits
\* for the gateway, admitted after the update of a billing event made its
\* account premium.
C17_Witness ==
    \E r \in inflight :
        /\ r.pc = "openai"
        /\ UpgradedToPremium(r.uid)
        /\ r.plan = "premium"
        /\ r.usedTokens + r.totalTokens > 20000

\* C18: every request in flight passed admission on its own, u + k <= c with
\* the usage u it read, and its charge is added to the usage the store holds
\* when the charge runs, not to u.  So two requests of one account that both
\* read u before either is charged are both admitted and both charged, and
\* the consumedQuota can end above the ceiling (the witness).
C18_ChargesOfAdmittedRequestsAddUp ==
    [][/\ \A r \in inflight' : r.usedTokens + r.totalTokens <= r.maxTokens
       /\ \A r \in inflight :
            AddUsedTokensDone(r, TRUE)
            => users'[r.uid].usedTokens = users[r.uid].usedTokens + r.totalTokens
       /\ \A st \in dbq :
            (DbRun(st, TRUE) /\ st.op = "addUsedTokens" /\ HasUser(st.id))
            => users'[st.id].usedTokens = users[st.id].usedTokens + st.amount]_vars

\* C18 witness: a request admitted with u + k <= c has just been charged, and
\* the consumedQuota of its account, still on the tier of its admission, is
\* above c: another request of the account was charged in between.
C18_Witness ==
    \E r \in inflight :
        /\ r.pc = "saveArticle"
        /\ r.usedTokens + r.totalTokens <= r.maxTokens
        /\ users[r.uid].plan = r.plan
        /\ users[r.uid].usedTokens > r.maxTokens

\* C19: when the gateway call of a generate request fails, the handler
\* catches the error and answers 500 in that step, and nothing of the
\* request stays behind unanswered; no request is ever left where no code
\* will answer it.
C19_GatewayErrorAnswered ==
    [][/\ \A r \in inflight :
            (OpenAIReturn(r, "error") \/ OpenAIReturnUnawaited(r, "error"))
            => /\ lastResp'.kind = "generate" /\ lastResp'.status = 500
               /\ Successors(r) = {}
       /\ \A r \in inflight' : r.pc # "unhandled"]_vars

\* The requests of account uid between their admission and their charge.
BeforeCharge(uid) ==
    {r \in inflight : r.uid = uid /\ r.pc \in {"openai", "addUsedTokens"}}

\* C20: the update of a billing event can run while a generate request of
\* its account is between admission and charge, and when it does it sets the
\* tier and nothing else: consumedQuota, history and the request itself stay
\* as they are.  A
\* request whose account changed tier since its admission still charges the
\* cost it was admitted with, and records one row of its account.
C20_UpgradeDuringGenerationSetsTierOnly ==
    [][/\ \A st \in dbq :
            (st.op = "updateUserPlan" /\ BeforeCharge(st.id) # {})
            => ENABLED DbRun(st, TRUE)
       /\ \A st \in dbq :
            (/\ DbRun(st, TRUE) /\ st.op = "updateUserPlan"
             /\ BeforeCharge(st.id) # {})
            => /\ users' = [users EXCEPT ![st.id].plan = st.plan]
               /\ articles' = articles
               /\ inflight' = inflight
       /\ \A r \in inflight :
            (HasUser(r.uid) /\ users[r.uid].plan # r.plan)
            => /\ AddUsedTokensDone(r, TRUE)
                  => users' = [users EXCEPT ![r.uid].usedTokens = @ + r.totalTokens]
               /\ SaveArticleDone(r, TRUE)
                  => /\ users' = users
                     /\ articles' = Append(articles, [userId |-> r.uid,
                                       topic |-> r.topic, content |-> r.article])
               /\ OpenAIReturnUnawaited(r, "text")
                  => \E st \in dbq' \ dbq :
                        /\ st.op = "addUsedTokens"
                        /\ st.id = r.uid /\ st.amount = r.totalTokens]_vars

\* C20 witness: a request admitted while its account was free has its
\* gateway call behind it and its charge ahead, and the update of a billing
\* event has made the account premium meanwhile; nothing was charged yet.
C20_Witness ==
    \E r \in inflight :
        /\ r.pc = "addUsedTokens"
        /\ r.plan = "free"
        /\ UpgradedToPremium(r.uid) /\ users[r.uid].plan = "premium"
        /\ users[r.uid].usedTokens = r.usedTokens

\* The history rows of account uid.
RowsOf(arts, uid) == {i \in 1..Len(arts) : arts[i].userId = uid}

\* The requests of account uid that are charged and have their row ahead.
BeforeRow(uid) == {r \in inflight : r.uid = uid /\ r.pc = "saveArticle"}

\* C21 (variant 2): a request writes its history row only after its charge
\* is committed: no account ever has more history rows than committed
\* charges, every request that waits for its row has been charged, and when
\* the INSERT of the row fails the charge stays, no row is written and the
\* account is one row short for that request, not more.
C21_ChargeBeforeHistoryRow ==
    [][variant = 2 =>
        /\ \A uid \in UserIds :
              /\ Cardinality(RowsOf(articles', uid)) <= charges'[uid].n
              /\ Cardinality(BeforeRow(uid)') <= charges'[uid].n
        /\ \A r \in inflight :
              /\ SaveArticleDone(r, TRUE)
                 => /\ Cardinality(RowsOf(articles', r.uid))
                         = Cardinality(RowsOf(articles, r.uid)) + 1
                    /\ users' = users /\ charges' = charges
              /\ SaveArticleDone(r, FALSE)
                 => /\ users' = users /\ charges' = charges
                    /\ articles' = articles
                    /\ Cardinality(RowsOf(articles, r.uid)) < charges[r.uid].n
                    /\ lastResp'.status = 500]_vars

\* C21 witness: the INSERT of the only request's row failed: its account has
\* one committed charge, the usage of that charge, and no history row.
C21_Witness ==
    /\ variant = 2 /\ inflight = {}
    /\ lastResp.kind = "generate" /\ lastResp.status = 500
    /\ \E uid \in UserIds :
          /\ HasUser(uid)
          /\ charges[uid].n = 1 /\ users[uid].usedTokens = charges[uid].sum
          /\ users[uid].usedTokens > 0
          /\ RowsOf(articles, uid) = {}

\* C22: when the gateway call of a generate request returns a response
\* without the expected fields, the request goes on with the placeholder as
\* its article, and a request that goes on with the placeholder is charged
\* its cost, records the placeholder in the history and answers 200 with it.
C22_MalformedResponseBecomesPlaceholder ==
    [][\A r \in inflight :
          /\ (OpenAIReturn(r, "malformed") \/ OpenAIReturnUnawaited(r, "malformed"))
             => /\ lastResp' = lastResp \/ lastResp'.status = 200
                /\ \/ \E x \in Successors(r) :
                        /\ x.pc = "addUsedTokens"
                        /\ x.article = "Failed to parse OpenAI response."
                   \/ \E st \in dbq' \ dbq :
                        /\ st.op = "saveArticle"
                        /\ st.content = "Failed to parse OpenAI response."
          /\ r.article = "Failed to parse OpenAI response."
             => /\ AddUsedTokensDone(r, TRUE)
                   => users'[r.uid].usedTokens
                         = users[r.uid].usedTokens + r.totalTokens
                /\ SaveArticleDone(r, TRUE)
                   => /\ articles'[Len(articles')].content = r.article
                      /\ lastResp'.status = 200
                      /\ lastResp'.article = r.article]_vars

\* C23: in every reachable state the consumedQuota an account has in the
\* store is the sum of the costs of the charges committed for it, however the
\* requests that made them interleave: no charge is overwritten or lost.
C23_ChargesNeverLost ==
    \A uid \in UserIds :
        HasUser(uid) => users[uid].usedTokens = charges[uid].sum

\* C23 witness: two requests of one account both read its usage as 0, both
\* were admitted and both are charged; the store holds the sum of both costs.
C23_Witness ==
    \E r1, r2 \in inflight :
        /\ r1 # r2 /\ r1.uid = r2.uid
        /\ r1.pc = "saveArticle" /\ r2.pc = "saveArticle"
        /\ r1.usedTokens = 0 /\ r2.usedTokens = 0
        /\ charges[r1.uid].n = 2
        /\ users[r1.uid].usedTokens = r1.totalTokens + r2.totalTokens

\* C24: the usedTokensAfter a successful generate request returns is the
\* usage the handler read plus its cost, and that is what the store holds for
\* the account right after the request's charge is committed.
C24_UsedTokensAfterIsStoredUsage ==
    [][\A r \in inflight :
          /\ AddUsedTokensDone(r, TRUE)
             => users'[r.uid].usedTokens = r.usedTokens + r.totalTokens
          /\ SaveArticleDone(r, TRUE)
             => lastResp'.usedTokensAfter = r.usedTokens + r.totalTokens]_vars

====
